---- MODULE Spec2Model ----
(***************************************************************************)
(* A model of kishash.py: a secret key of NUM_LINES characters is embedded *)
(* at fixed POSITIONS of a NUM_LINES x LINE_LENGTH document of random      *)
(* hexadecimal characters, and later read back from those positions.       *)
(*                                                                         *)
(* A Python str is a sequence of one-character strings.  The file system   *)
(* is one path: fs.exists says whether the file is there, fs.text is what  *)
(* is stored in it.  The randomness of the secrets module is a choice of   *)
(* an entropy index e; Urandom(e, k, n) is the k-th draw of n bytes.       *)
(***************************************************************************)
EXTENDS Integers, Sequences, FiniteSets

(* ------------------------------ bounds --------------------------------- *)
\* entropy indices 0..MaxEntropy are the outcomes of the random source
MaxEntropy == 3

(* ------------------------ fixed configuration -------------------------- *)
POSITIONS == <<0, 4, 8, 16, 32, 64, 96, 112, 120, 127>>
LINE_LENGTH == 128
NUM_LINES == 10

(* --------------------------- characters -------------------------------- *)
\* the digits bytes.hex() produces, indexed by nibble value + 1
HexDigits == <<"0", "1", "2", "3", "4", "5", "6", "7", "8", "9",
               "a", "b", "c", "d", "e", "f">>

HexChars == {HexDigits[n] : n \in 1..16}

\* characters str.splitlines() treats as line boundaries (the ones the model
\* uses: line feed, carriage return, form feed)
LineBoundaries == {"\n", "\r", "\f"}

IsHexStr(s) == \A i \in 1..Len(s) : s[i] \in HexChars

SetMax(S) == CHOOSE m \in S : \A x \in S : x <= m

(* --------------------------- randomness -------------------------------- *)
\* os.urandom: the k-th draw of n bytes under entropy index e
Urandom(e, k, n) ==
    [j \in 1..n |-> (e * 91 + k * 53 + j * 37 + e * j * 13 + j * j * 3 + k * j * 5) % 256]

\* secrets.token_hex(nbytes): two lowercase hex digits per byte, high nibble first
token_hex(bytes) ==
    [c \in 1..(2 * Len(bytes)) |->
        IF c % 2 = 1 THEN HexDigits[(bytes[(c + 1) \div 2] \div 16) + 1]
                     ELSE HexDigits[(bytes[c \div 2] % 16) + 1]]

\* the slip  token_hex(NUM_LINES): ten bytes, twenty characters
generate_secret_key_TenBytes(e) == token_hex(Urandom(e, 0, NUM_LINES))

\* token_hex(5)
generate_secret_key(e) == token_hex(Urandom(e, 0, 5))

\* the line drawn for 0-indexed line i of a document
random_hex_line(e, i) == token_hex(Urandom(e, i + 1, LINE_LENGTH \div 2))

(* ------------------------- text file layer ----------------------------- *)
RECURSIVE InsertBefore(_, _, _)
\* s with the sequence ins inserted before each index of the set At
InsertBefore(s, At, ins) ==
    IF At = {} THEN s
    ELSE LET m == SetMax(At)
         IN  InsertBefore(SubSeq(s, 1, m - 1) \o ins \o SubSeq(s, m, Len(s)),
                          At \ {m}, ins)

RECURSIVE RemoveAt(_, _)
\* s without the characters at the indices of the set At
RemoveAt(s, At) ==
    IF At = {} THEN s
    ELSE LET m == SetMax(At)
         IN  RemoveAt(SubSeq(s, 1, m - 1) \o SubSeq(s, m + 1, Len(s)), At \ {m})

\* Path.write_text in text mode: every "\n" is stored as os.linesep
WriteText(s, sep) ==
    IF sep = <<"\n">> THEN s
    ELSE InsertBefore(s, {i \in 1..Len(s) : s[i] = "\n"}, <<"\r">>)

\* Path.read_text in text mode (universal newlines): "\r\n" and "\r" read as "\n"
ReadText(s) ==
    LET crlf == {i \in 1..Len(s) : s[i] = "\r" /\ i < Len(s) /\ s[i + 1] = "\n"}
        t    == RemoveAt(s, crlf)
    IN  [i \in 1..Len(t) |-> IF t[i] = "\r" THEN "\n" ELSE t[i]]

\* index i ends a line of s ("\r\n" counts as one boundary, ending at the "\n")
IsLineEnd(s, i) ==
    /\ s[i] \in LineBoundaries
    /\ ~(s[i] = "\r" /\ i < Len(s) /\ s[i + 1] = "\n")

\* str.splitlines(): the lines of s without their boundaries; a final
\* boundary does not open a further empty line
splitlines(s) ==
    LET E     == {i \in 1..Len(s) : IsLineEnd(s, i)}
        n     == Cardinality(E)
        se    == [k \in 1..n |-> CHOOSE i \in E : Cardinality({j \in E : j < i}) = k - 1]
        last  == IF n = 0 THEN 0 ELSE se[n]
        count == IF last < Len(s) THEN n + 1 ELSE n
        start(k) == IF k = 1 THEN 1 ELSE se[k - 1] + 1
        stop(k)  == IF k > n THEN Len(s)
                    ELSE IF s[se[k]] = "\n" /\ se[k] > 1 /\ s[se[k] - 1] = "\r"
                         THEN se[k] - 2
                         ELSE se[k] - 1
    IN  [k \in 1..count |-> SubSeq(s, start(k), stop(k))]

RECURSIVE JoinLines(_)
\* "\n".join(lines)
JoinLines(lines) ==
    IF Len(lines) = 0 THEN <<>>
    ELSE IF Len(lines) = 1 THEN lines[1]
    ELSE lines[1] \o <<"\n">> \o JoinLines(Tail(lines))

(* ------------------------- results and output -------------------------- *)
Return(v) == [exc |-> "None", value |-> v]
Raise(e)  == [exc |-> e, value |-> <<>>]

Msg(tag, text) == [tag |-> tag, text |-> text]

NoFile == [exists |-> FALSE, text |-> <<>>]
File(text) == [exists |-> TRUE, text |-> text]

(* ----------------------------- embedder -------------------------------- *)
\* the slip  line[:pos] + ch + line[pos:]  (the old character is kept)
EmbedChar_Insert(line, pos, ch) ==
    SubSeq(line, 1, pos) \o <<ch>> \o SubSeq(line, pos + 1, Len(line))

\* line[:pos] + ch + line[pos + 1:]
EmbedChar(line, pos, ch) ==
    SubSeq(line, 1, pos) \o <<ch>> \o SubSeq(line, pos + 2, Len(line))

\* the list  lines  built by the loop of write_file_with_key
EmbedLines(secret_key, e) ==
    [l \in 1..NUM_LINES |->
        EmbedChar(random_hex_line(e, l - 1), POSITIONS[l], secret_key[l])]

\* the slip  len(secret_key) < NUM_LINES  in the length check
write_file_with_key_AtLeast(secret_key, f, e, canWrite, sep) ==
    IF Len(secret_key) < NUM_LINES
    THEN [fs |-> f, ret |-> Raise("ValueError: key length"), out |-> <<>>]
    ELSE IF ~canWrite
    THEN [fs |-> f, ret |-> Raise("OSError"), out |-> <<>>]
    ELSE [fs  |-> File(WriteText(JoinLines(EmbedLines(secret_key, e)) \o <<"\n">>, sep)),
          ret |-> Return(<<>>),
          out |-> <<Msg("OK written", <<>>), Msg("OK key", secret_key)>>]

\* write_file_with_key: the file afterwards, the result and what is printed
write_file_with_key(secret_key, f, e, canWrite, sep) ==
    IF Len(secret_key) # NUM_LINES
    THEN [fs |-> f, ret |-> Raise("ValueError: key length"), out |-> <<>>]
    ELSE IF ~canWrite
    THEN [fs |-> f, ret |-> Raise("OSError"), out |-> <<>>]
    ELSE [fs  |-> File(WriteText(JoinLines(EmbedLines(secret_key, e)) \o <<"\n">>, sep)),
          ret |-> Return(<<>>),
          out |-> <<Msg("OK written", <<>>), Msg("OK key", secret_key)>>]

(* ----------------------------- extractor ------------------------------- *)
\* the characters the loop of extract_key_from_file collects
ExtractedChars(content) ==
    [l \in 1..Len(content) |-> content[l][POSITIONS[l] + 1]]

\* the slip  len(line) < LINE_LENGTH  in the line check
extract_key_from_file_AtLeast(f) ==
    IF ~f.exists THEN Raise("FileNotFoundError")
    ELSE LET content == splitlines(ReadText(f.text))
         IN  IF Len(content) # NUM_LINES THEN Raise("ValueError: line count")
             ELSE IF \E l \in 1..Len(content) : Len(content[l]) < LINE_LENGTH
                  THEN Raise("ValueError: line length")
                  ELSE Return(ExtractedChars(content))

\* an extractor that also rejects a line holding a non-hexadecimal character
extract_key_from_file_HexOnly(f) ==
    IF ~f.exists THEN Raise("FileNotFoundError")
    ELSE LET content == splitlines(ReadText(f.text))
         IN  IF Len(content) # NUM_LINES THEN Raise("ValueError: line count")
             ELSE IF \E l \in 1..Len(content) :
                        Len(content[l]) # LINE_LENGTH \/ ~IsHexStr(content[l])
                  THEN Raise("ValueError: line length")
                  ELSE Return(ExtractedChars(content))

extract_key_from_file(f) ==
    IF ~f.exists THEN Raise("FileNotFoundError")
    ELSE LET content == splitlines(ReadText(f.text))
         IN  IF Len(content) # NUM_LINES THEN Raise("ValueError: line count")
             ELSE IF \E l \in 1..Len(content) : Len(content[l]) # LINE_LENGTH
                  THEN Raise("ValueError: line length")
                  ELSE Return(ExtractedChars(content))

(* ------------------------------ commands ------------------------------- *)
\* cmd_generate: a fresh key is embedded; nothing is caught
cmd_generate(f, e, canWrite, sep) ==
    write_file_with_key(generate_secret_key(e), f, e, canWrite, sep)

\* args.key of the validate command: absent (None) or a string
NoKey == [given |-> FALSE, value |-> <<>>]
KeyArg(k) == [given |-> TRUE, value |-> k]

\* Python truthiness of args.key: None and "" are both false
Truthy(k) == k.given /\ Len(k.value) > 0

\* a handler that catches ValueError only: FileNotFoundError escapes
cmd_validate_ValueErrorOnly(f, k) ==
    LET extracted == extract_key_from_file(f)
    IN  IF extracted.exc = "FileNotFoundError"
        THEN [ret |-> Raise(extracted.exc), out |-> <<>>]
        ELSE IF extracted.exc # "None"
        THEN [ret |-> Return(<<>>), out |-> <<Msg("Error", <<extracted.exc>>)>>]
        ELSE [ret |-> Return(<<>>),
              out |-> <<Msg("Extracted key", extracted.value),
                        IF Truthy(k)
                        THEN IF k.value = extracted.value
                             THEN Msg("MATCH", <<>>)
                             ELSE Msg("MISMATCH", <<>>)
                        ELSE Msg("No key provided", <<>>)>>]

\* cmd_validate: every exception of the extraction is caught and printed
cmd_validate(f, k) ==
    LET extracted == extract_key_from_file(f)
    IN  IF extracted.exc # "None"
        THEN [ret |-> Return(<<>>), out |-> <<Msg("Error", <<extracted.exc>>)>>]
        ELSE [ret |-> Return(<<>>),
              out |-> <<Msg("Extracted key", extracted.value),
                        IF Truthy(k)
                        THEN IF k.value = extracted.value
                             THEN Msg("MATCH", <<>>)
                             ELSE Msg("MISMATCH", <<>>)
                        ELSE Msg("No key provided", <<>>)>>]

(* ------------------------------- inputs -------------------------------- *)
KeyExample == <<"0", "1", "2", "3", "4", "5", "6", "7", "8", "9">>
KeyNonHex  == <<"K", "1", "s", "3", "h", "5", "!", "7", "Z", "9">>
KeyLF      == <<"\n", "1", "2", "3", "4", "5", "6", "7", "8", "9">>
KeyCR      == <<"0", "1", "2", "3", "4", "\r", "6", "7", "8", "9">>
KeyFF      == <<"a", "b", "c", "d", "e", "f", "0", "f", "9", "\f">>
KeyShort   == <<"0", "1", "2", "3", "4", "5", "6", "7", "8">>
KeyLong    == <<"0", "1", "2", "3", "4", "5", "6", "7", "8", "9", "a">>
KeyEmpty   == <<>>

\* keys handed to write_file_with_key by a caller
Keys == {KeyExample, KeyNonHex, KeyLF, KeyCR, KeyFF, KeyShort, KeyLong, KeyEmpty}

\* values of --key
KeyArgs == {NoKey} \cup {KeyArg(k) : k \in {KeyExample, KeyNonHex, KeyShort, KeyEmpty}}
                   \cup {KeyArg(generate_secret_key(e)) : e \in 0..MaxEntropy}

\* a line of n copies of ch
Fill(n, ch) == [j \in 1..n |-> ch]

\* a document of n lines of the given lengths, each line ended by sep
RECURSIVE Doc(_, _)
Doc(lines, sep) ==
    IF Len(lines) = 0 THEN <<>> ELSE lines[1] \o sep \o Doc(Tail(lines), sep)

\* what may be at the path before the first command
InitFiles ==
    { NoFile,
      File(<<>>),
      File(Doc([l \in 1..NUM_LINES |-> Fill(LINE_LENGTH, "x")], <<"\r", "\n">>)),
      File(JoinLines([l \in 1..NUM_LINES |-> Fill(LINE_LENGTH, HexDigits[l])])),
      File(Doc([l \in 1..NUM_LINES - 1 |-> Fill(LINE_LENGTH, "c")], <<"\n">>)),
      File(Doc([l \in 1..NUM_LINES + 1 |-> Fill(LINE_LENGTH, "d")], <<"\n">>)),
      File(Doc([l \in 1..NUM_LINES |->
                  Fill(IF l = 3 THEN LINE_LENGTH - 1 ELSE LINE_LENGTH, "e")], <<"\n">>)),
      File(Doc([l \in 1..NUM_LINES |->
                  Fill(IF l = NUM_LINES THEN LINE_LENGTH + 1 ELSE LINE_LENGTH, "f")],
               <<"\n">>)) }

(* ------------------------------- state --------------------------------- *)
VARIABLES
    fs,         \* the file at the path: [exists, text]
    writable,   \* whether the path can be opened for writing
    linesep,    \* os.linesep of the platform
    call,       \* the last call: [name, key, e]
    ret,        \* its result: [exc, value]
    out,        \* what it printed
    embedded    \* history: the key of the last successful write_text, if any

vars == <<fs, writable, linesep, call, ret, out, embedded>>

Call(name, k, e) == [name |-> name, key |-> k, e |-> e]

Init ==
    /\ fs \in InitFiles
    /\ writable \in BOOLEAN
    /\ linesep \in {<<"\n">>, <<"\r", "\n">>}
    /\ call = Call("none", NoKey, 0)
    /\ ret = Return(<<>>)
    /\ out = <<>>
    /\ embedded = NoKey

\* the key now embedded, after a call of the embedder that returned r
Embedded(r, k) == IF r.ret.exc = "None" THEN KeyArg(k) ELSE embedded

\* the random source is read only after the length check has passed
Draws(k) == IF Len(k) = NUM_LINES THEN 0..MaxEntropy ELSE {0}

WriteFileWithKey ==
    \E k \in Keys : \E e \in Draws(k) :
        \E r \in {write_file_with_key(k, fs, e, writable, linesep)} :
            /\ fs' = r.fs
            /\ ret' = r.ret
            /\ out' = r.out
            /\ call' = Call("write_file_with_key", KeyArg(k), e)
            /\ embedded' = Embedded(r, k)
            /\ UNCHANGED <<writable, linesep>>

\* an extraction that consumes the file it has read
ExtractKeyFromFile_Consume ==
    /\ ret' = extract_key_from_file(fs)
    /\ out' = <<>>
    /\ call' = Call("extract_key_from_file", NoKey, 0)
    /\ fs' = NoFile
    /\ UNCHANGED <<writable, linesep, embedded>>

ExtractKeyFromFile ==
    /\ ret' = extract_key_from_file(fs)
    /\ out' = <<>>
    /\ call' = Call("extract_key_from_file", NoKey, 0)
    /\ UNCHANGED <<fs, writable, linesep, embedded>>

CmdGenerate ==
    \E e \in 0..MaxEntropy :
        \E r \in {cmd_generate(fs, e, writable, linesep)} :
            /\ fs' = r.fs
            /\ ret' = r.ret
            /\ out' = r.out
            /\ call' = Call("cmd_generate", KeyArg(generate_secret_key(e)), e)
            /\ embedded' = Embedded(r, generate_secret_key(e))
            /\ UNCHANGED <<writable, linesep>>

CmdValidate ==
    \E k \in KeyArgs :
        \E r \in {cmd_validate(fs, k)} :
            /\ ret' = r.ret
            /\ out' = r.out
            /\ call' = Call("cmd_validate", k, 0)
            /\ UNCHANGED <<fs, writable, linesep, embedded>>

Next == WriteFileWithKey \/ ExtractKeyFromFile \/ CmdGenerate \/ CmdValidate

Spec == Init /\ [][Next]_vars

(* ============================== properties ============================= *)
\* the document at the path as the extractor sees it: its lines
Content == splitlines(ReadText(fs.text))

\* the document has NUM_LINES lines of LINE_LENGTH characters
WellFormed(content) ==
    /\ Len(content) = NUM_LINES
    /\ \A l \in 1..NUM_LINES : Len(content[l]) = LINE_LENGTH

Wrote == call.name = "write_file_with_key" /\ ret.exc = "None"

\* the last printed line of a command
Outcome == IF Len(out) = 0 THEN "" ELSE out[Len(out)].tag

(* C1: a key of ten hexadecimal characters written by write_file_with_key, *)
(* under any drawn filler, is what extract_key_from_file then returns.     *)
C1_RoundTrip ==
    (Wrote /\ IsHexStr(call.key.value))
        => extract_key_from_file(fs) = Return(call.key.value)

C1_Witness ==
    /\ Wrote
    /\ call.key.value = KeyExample
    /\ extract_key_from_file(fs).value = KeyExample

(* C2: for every key write_file_with_key accepts, the written document is  *)
(* exactly NUM_LINES lines of LINE_LENGTH characters joined by newlines    *)
(* with one trailing newline, line i holding key[i] at POSITIONS[i] and    *)
(* the drawn hexadecimal filler everywhere else.                           *)
C2_DocumentShape ==
    Wrote =>
        LET content == Content
        IN  /\ WellFormed(content)
            /\ ReadText(fs.text) = JoinLines(content) \o <<"\n">>
            /\ \A l \in 1..NUM_LINES :
                  /\ content[l][POSITIONS[l] + 1] = call.key.value[l]
                  /\ \A j \in 1..LINE_LENGTH :
                        j # POSITIONS[l] + 1 =>
                            /\ content[l][j] = random_hex_line(call.e, l - 1)[j]
                            /\ content[l][j] \in HexChars

(* C3: extract_key_from_file succeeds exactly when the file exists and has *)
(* NUM_LINES lines of LINE_LENGTH characters; otherwise it fails with the  *)
(* error of the first check that fails; on success it returns the          *)
(* characters at POSITIONS, line by line.                                  *)
C3_ExtractOutcome ==
    call.name = "extract_key_from_file" =>
        LET content == Content
        IN  /\ (ret.exc = "None") <=> (fs.exists /\ WellFormed(content))
            /\ ~fs.exists => ret.exc = "FileNotFoundError"
            /\ (fs.exists /\ Len(content) # NUM_LINES)
                  => ret.exc = "ValueError: line count"
            /\ (fs.exists /\ Len(content) = NUM_LINES /\ ~WellFormed(content))
                  => ret.exc = "ValueError: line length"
            /\ ret.exc = "None" =>
                  /\ Len(ret.value) = NUM_LINES
                  /\ \A l \in 1..NUM_LINES :
                        ret.value[l] = content[l][POSITIONS[l] + 1]

C3_Witness ==
    /\ call.name = "extract_key_from_file"
    /\ fs.exists
    /\ ret.exc = "ValueError: line length"

(* C4: write_file_with_key with a key whose length is not NUM_LINES raises *)
(* the key length error and leaves the file as it was.                     *)
C4_RejectedKeyWritesNothing ==
    [][(call'.name = "write_file_with_key" /\ Len(call'.key.value) # NUM_LINES)
          => (fs' = fs /\ ret'.exc = "ValueError: key length" /\ out' = <<>>)]_vars

C4_Witness ==
    /\ call.name = "write_file_with_key"
    /\ Len(call.key.value) = NUM_LINES + 1
    /\ ret.exc = "ValueError: key length"
    /\ fs.exists
    /\ embedded.given

(* C5: when the extraction of cmd_validate succeeds, a given --key yields  *)
(* MATCH exactly when it equals the extracted key and MISMATCH otherwise,  *)
(* and the extraction-only message appears exactly when no --key was       *)
(* given, whatever the value of a given key.                               *)
C5_ValidateOutcome ==
    call.name = "cmd_validate" =>
        LET extracted == extract_key_from_file(fs)
        IN  extracted.exc = "None" =>
              /\ call.key.given =>
                    Outcome = IF call.key.value = extracted.value
                              THEN "MATCH" ELSE "MISMATCH"
              /\ (Outcome = "No key provided") <=> ~call.key.given

(* C6: cmd_validate catches every error of the extraction: it prints the   *)
(* error and nothing else and returns normally; cmd_generate catches       *)
(* nothing: an error of write_file_with_key leaves it as raised.           *)
C6_ErrorPaths ==
    /\ call.name = "cmd_validate" =>
          LET extracted == extract_key_from_file(fs)
          IN  extracted.exc # "None" =>
                /\ ret = Return(<<>>)
                /\ out = <<Msg("Error", <<extracted.exc>>)>>
    /\ (call.name = "cmd_generate" /\ ~writable) =>
          /\ ret.exc = "OSError"
          /\ out = <<>>

C6_Witness ==
    /\ call.name = "cmd_validate"
    /\ ~fs.exists
    /\ Outcome = "Error"

(* C7: the key cmd_generate draws has NUM_LINES characters, all lowercase  *)
(* hexadecimal; the command never raises the key length error, and a       *)
(* document it writes holds only hexadecimal characters and line ends.     *)
C7_GeneratedKey ==
    call.name = "cmd_generate" =>
        /\ Len(call.key.value) = NUM_LINES
        /\ IsHexStr(call.key.value)
        /\ ret.exc # "ValueError: key length"
        /\ ret.exc = "None" =>
              \A i \in 1..Len(fs.text) :
                  \/ fs.text[i] \in HexChars
                  \/ \E c \in 1..Len(linesep) : fs.text[i] = linesep[c]

C7_Witness ==
    /\ call.name = "cmd_generate"
    /\ ret.exc = "None"
    /\ out[2] = Msg("OK key", call.key.value)
    /\ Len(fs.text) = NUM_LINES * (LINE_LENGTH + Len(linesep))

(* C8: extraction returns the key of the most recent successful embed to   *)
(* the path, whatever rejected embeds and extractions came in between.     *)
C8_LastEmbedWins ==
    (call.name = "extract_key_from_file" /\ embedded.given)
        => ret = Return(embedded.value)

(* C9: extract_key_from_file and cmd_validate never change the file, and   *)
(* an extraction repeated on the untouched file gives the same result.     *)
C9_ReadOnly ==
    [][/\ call'.name \in {"extract_key_from_file", "cmd_validate"} => fs' = fs
       /\ (call.name = "extract_key_from_file" /\ call'.name = "extract_key_from_file")
              => ret' = ret
       /\ (call.name = "cmd_validate" /\ call' = call) => out' = out]_vars

C9_Witness ==
    /\ call.name = "cmd_validate"
    /\ Outcome = "MISMATCH"
    /\ fs.exists

\* places (line, offset) where a document is altered, and what is put there
TamperSites == {<<1, 0>>, <<1, 1>>, <<2, 3>>, <<6, 65>>, <<10, 0>>, <<10, 127>>}
TamperChars == {"0", "Z"}

\* the document  content  with the character of line l at offset o set to ch
Tampered(content, l, o, ch) ==
    File(Doc([content EXCEPT ![l][o + 1] = ch], <<"\n">>))

\* two well-formed documents agree at the ten fixed positions
AgreeAtPositions(c, d) ==
    \A l \in 1..NUM_LINES : c[l][POSITIONS[l] + 1] = d[l][POSITIONS[l] + 1]

(* C10: the outcome of an extraction or validation of a well-formed        *)
(* document is the outcome on any well-formed document that agrees with it *)
(* at the ten positions, hexadecimal or not elsewhere.                     *)
C10_OnlyPositionsMatter ==
    (call.name \in {"extract_key_from_file", "cmd_validate"} /\ fs.exists) =>
        LET content == Content
        IN  WellFormed(content) =>
              \A site \in TamperSites, ch \in TamperChars :
                  LET d == Tampered(content, site[1], site[2], ch)
                  IN  AgreeAtPositions(content, splitlines(ReadText(d.text))) =>
                          IF call.name = "extract_key_from_file"
                          THEN extract_key_from_file(d) = ret
                          ELSE cmd_validate(d, call.key).out = out

C10_Witness ==
    /\ call.name = "cmd_validate"
    /\ Outcome = "MATCH"
    /\ ~IsHexStr(call.key.value)

====
